---- MODULE Spec2Model ----
(***************************************************************************)
(* Font Scope Pro (app.js): the font registry, its IndexedDB store, the    *)
(* list renderer and the upload / delete / clear / export handlers, as a   *)
(* state machine.  One action per handler continuation: a handler runs     *)
(* atomically up to its next await / timer, as the JS event loop runs it.  *)
(*                                                                         *)
(* Strings are sequences of one-character strings, so that toLowerCase,    *)
(* includes, endsWith and slice are computed and not assumed.              *)
(*                                                                         *)
(* IndexedDB runs the transactions of one store in the order they were     *)
(* created, so a transaction's effect on `store` is applied when it is     *)
(* issued, and the promises of the requests settle in that order (dbQ).    *)
(* Whether a write fails is chosen when it is issued.  DB.init and getAll  *)
(* are taken to succeed.                                                   *)
(***************************************************************************)
EXTENDS Integers, Sequences, FiniteSets, TLC

\* ------------------------------------------------------------------ bounds
\* handlers that can be suspended at once (an upload batch, a clear, a
\* delete, an export, a loadFonts or the deferred first load): a new
\* handler is started only below this number
MaxInFlight == 2
\* user gestures (a drop, a click, an edit of the search box or of a tag)
\* that are followed between two page loads
MaxGestures == 3

\* ------------------------------------------------------- program constants
\* MAX_FONTS is 500 in the source; the model keeps the guard and uses a
\* cap that three file names can exceed.
MAX_FONTS == 2
MAX_FILE_SIZE == 50 * 1024 * 1024
CHUNK_SIZE == 20

\* --------------------------------------------------------------- strings
Str_ttf == <<".", "t", "t", "f">>
Str_otf == <<".", "o", "t", "f">>
Str_woff == <<".", "w", "o", "f", "f">>
Str_woff2 == <<".", "w", "o", "f", "f", "2">>
validExtensions == <<Str_ttf, Str_otf, Str_woff, Str_woff2>>

\* UTF-16 code units of the characters the model uses (String comparison,
\* IndexedDB key order)
CharCode(c) ==
    CASE c = "." -> 46 [] c = "2" -> 50
      [] c = "A" -> 65 [] c = "F" -> 70 [] c = "O" -> 79 [] c = "W" -> 87
      [] c = "_" -> 95
      [] c = "a" -> 97 [] c = "b" -> 98 [] c = "c" -> 99 [] c = "d" -> 100
      [] c = "f" -> 102 [] c = "o" -> 111 [] c = "t" -> 116
      [] c = "w" -> 119 [] c = "x" -> 120
      [] OTHER -> 0

\* String.prototype.toLowerCase, per character
LowerChar(c) ==
    CASE c = "A" -> "a" [] c = "F" -> "f" [] c = "O" -> "o"
      [] c = "W" -> "w" [] OTHER -> c

toLowerCase(s) == [i \in 1..Len(s) |-> LowerChar(s[i])]

\* String.prototype.includes
includes(s, q) ==
    \E i \in 1..(Len(s) + 1) :
        /\ i + Len(q) - 1 <= Len(s)
        /\ SubSeq(s, i, i + Len(q) - 1) = q

\* String.prototype.endsWith
endsWith(s, e) ==
    /\ Len(e) <= Len(s)
    /\ SubSeq(s, Len(s) - Len(e) + 1, Len(s)) = e

\* String.prototype.slice(0, n)
slice(s, n) == SubSeq(s, 1, IF Len(s) < n THEN Len(s) ELSE n)

\* s < t as JavaScript (and IndexedDB) compare strings: by code unit
RECURSIVE StrLess(_, _)
StrLess(s, t) ==
    IF t = <<>> THEN FALSE
    ELSE IF s = <<>> THEN TRUE
    ELSE IF CharCode(Head(s)) # CharCode(Head(t))
         THEN CharCode(Head(s)) < CharCode(Head(t))
         ELSE StrLess(Tail(s), Tail(t))

Range(s) == {s[i] : i \in 1..Len(s)}

\* ------------------------------------------------------------- the inputs
Name_A == <<"A", ".", "t", "t", "f">>
Name_b == <<"b", ".", "o", "t", "f">>
Name_c == <<"c", ".", "W", "O", "F", "F">>
Name_d == <<"d", ".", "t", "x", "t">>

\* a File: name, size, MIME type, its first bytes (at most 4 are read), and
\* whether FileReader can read the slice; content names the bytes
File(n, sz, ty, hd, rd, ct) ==
    [name |-> n, size |-> sz, type |-> ty, header |-> hd,
     sliceReadable |-> rd, content |-> ct]

File_A == File(Name_A, 1024, <<>>, <<0, 1, 0, 0>>, TRUE, 1)
File_b == File(Name_b, 1024, <<>>, <<79, 84, 84, 79>>, TRUE, 2)
File_c == File(Name_c, 1024, <<>>, <<119, 79, 70, 70>>, TRUE, 3)
\* a PDF renamed to .otf
File_bPdf == File(Name_b, 1024, <<>>, <<37, 80, 68, 70>>, TRUE, 4)
\* a two-byte file named .woff
File_cShort == File(Name_c, 2, <<>>, <<119, 79>>, TRUE, 5)
\* a font whose slice cannot be read
File_cUnread == File(Name_c, 1024, <<>>, <<119, 79, 70, 70>>, FALSE, 6)
\* a valid font one byte over the size cap
File_AHuge == File(Name_A, MAX_FILE_SIZE + 1, <<>>, <<0, 1, 0, 0>>, TRUE, 7)
File_d == File(Name_d, 1024, <<>>, <<0, 1, 0, 0>>, TRUE, 8)

\* the FileLists the user drops or picks
Batches ==
    { <<File_d, File_A>>,
      <<File_b, File_c>>,
      <<File_bPdf, File_c>>,
      <<File_AHuge, File_cShort>>,
      <<File_cUnread>>,
      <<File_d>> }

FileNames == {Name_A, Name_b, Name_c}

\* what the user types in the search box and in a tag field
Searches == { <<>>, <<"W">> }
RawTags == { <<>>, <<" ", "w">> }
\* the cards whose tag field the user edits
TagEdited == { Name_A }

\* ------------------------------------------------------- Security helpers
Digit(d) ==
    CASE d = 0 -> "0" [] d = 1 -> "1" [] d = 2 -> "2" [] d = 3 -> "3"
      [] d = 4 -> "4" [] d = 5 -> "5" [] d = 6 -> "6" [] d = 7 -> "7"
      [] d = 8 -> "8" [] OTHER -> "9"

\* Number to String, base 10
RECURSIVE NumToStr(_)
NumToStr(n) ==
    IF n < 10 THEN <<Digit(n)>> ELSE NumToStr(n \div 10) \o <<Digit(n % 10)>>

Alnum ==
    {"a", "b", "c", "d", "e", "f", "g", "h", "i", "j", "k", "l", "m", "n",
     "o", "p", "q", "r", "s", "t", "u", "v", "w", "x", "y", "z",
     "A", "B", "C", "D", "E", "F", "G", "H", "I", "J", "K", "L", "M", "N",
     "O", "P", "Q", "R", "S", "T", "U", "V", "W", "X", "Y", "Z",
     "0", "1", "2", "3", "4", "5", "6", "7", "8", "9"}

Str_na == <<"n", "a">>
Str_octet ==
    <<"a", "p", "p", "l", "i", "c", "a", "t", "i", "o", "n", "/",
      "o", "c", "t", "e", "t", "-", "s", "t", "r", "e", "a", "m">>

\* new Blob([buffer], {type: file.type || 'application/octet-stream'})
Blob(file) ==
    [content |-> file.content, size |-> file.size,
     type |-> IF file.type = <<>> THEN Str_octet ELSE file.type]

\* Security.safeFontId.  The names are ASCII, so unescape(encodeURIComponent)
\* leaves base as it is; the first 8 base64 characters of btoa encode
\* exactly the first 6 bytes of base, one to one, so the hash is kept as
\* those 6 bytes.
safeFontId(fileName, blob) ==
    LET type == IF blob.type = <<>> THEN Str_na ELSE blob.type
        base == fileName \o <<"_">> \o NumToStr(blob.size) \o <<"_">> \o type
        safeStr == [i \in 1..Len(fileName) |->
                       IF fileName[i] \in Alnum THEN fileName[i] ELSE "_"]
        hash == slice(base, 6)
    IN  <<"f", "_">> \o slice(safeStr, 20) \o <<"_">> \o hash

\* white space that String.prototype.trim removes, and the characters the
\* regular expression of sanitizeTag removes; "<01>" stands for U+0001 and
\* "<202E>" for U+202E
WhiteSpace == {" ", "\t", "\n"}
Stripped == {"\t", "\n", "<01>", "<7F>", "<200E>", "<200F>", "<202A>", "<202E>"}
TAG_MAX == 40

RECURSIVE trimStart(_)
trimStart(s) ==
    IF s # <<>> /\ Head(s) \in WhiteSpace THEN trimStart(Tail(s)) ELSE s

RECURSIVE trimEnd(_)
trimEnd(s) ==
    IF s # <<>> /\ s[Len(s)] \in WhiteSpace
    THEN trimEnd(SubSeq(s, 1, Len(s) - 1)) ELSE s

trim(s) == trimEnd(trimStart(s))

\* Security.sanitizeTag
sanitizeTag(str) ==
    IF str = <<>> THEN <<>>
    ELSE SelectSeq(slice(trim(str), TAG_MAX), LAMBDA c : c \notin Stripped)

getUint32(b) == ((b[1] * 256 + b[2]) * 256 + b[3]) * 256 + b[4]

ValidMagic ==
    { getUint32(<<0, 1, 0, 0>>),        \* 0x00010000 TTF
      getUint32(<<79, 84, 84, 79>>),    \* 0x4F54544F OTF
      getUint32(<<119, 79, 70, 70>>),   \* 0x774F4646 WOFF
      getUint32(<<119, 79, 70, 50>>) }  \* 0x774F4632 WOFF2

\* a faulty checkSignature that accepts any four readable bytes
\* (sensitivity of C6)
checkSignature_AnyHeader(file) ==
    file.sliceReadable /\ Len(file.header) >= 4

\* Security.checkSignature: what the promise resolves to
checkSignature(file) ==
    IF ~file.sliceReadable THEN FALSE
    ELSE LET view == slice(file.header, 4)
         IN  IF Len(view) < 4 THEN FALSE
             ELSE getUint32(view) \in ValidMagic

\* ------------------------------------------------------------------ state
VARIABLES
    store,        \* the "fonts" object store: fileName -> [data, userTag]
    fonts,        \* STATE.fonts
    filtered,     \* STATE.filtered (its elements are the objects of fonts)
    search,       \* STATE.search
    isProcessing, \* STATE.isProcessing
    objectUrls,   \* STATE.objectUrls: fileName -> URL
    loadedFonts,  \* STATE.loadedFonts: set of font ids
    sheet,        \* MasterStyle.sheet.cssRules
    renderedMap,  \* STATE.renderedMap: the file names that have an entry
    grid,         \* DOM.grid.children
    initPc,       \* "deferred": the idle callback of init has not run yet
    up,           \* the handleUpload invocations, by slot
    clearPc,      \* the clearAll promise chain
    exportPc,     \* the exportPDF invocation
    dbQ,          \* IndexedDB requests whose promise is awaited, oldest
                  \* first
    gestures,     \* user gestures since the page was loaded
    last          \* what the last step did: the toasts it showed, whether
                  \* it ran a render pass, the cards it created and
                  \* removed, the URLs it revoked

vars == <<store, fonts, filtered, search, isProcessing, objectUrls,
          loadedFonts, sheet, renderedMap, grid, initPc, up, clearPc,
          exportPc, dbQ, gestures, last>>

Slots == 1..MaxInFlight

\* DOM nodes of the grid: the card of a record, and the placeholder
Card(fileName) == <<"card", fileName>>
EmptyState == <<"emptyState", <<>>>>

Toast(msg, type, fileName) == [msg |-> msg, type |-> type, name |-> fileName]

\* updateProgress(pct, show), pct given as the fraction done/total: the bar
\* takes that width and the percentage is written when show holds, and the
\* bar is reset to 0 when it does not.  A report stands in the sequence of
\* what a step displayed, among its toasts.
updateProgress(done, total, show) ==
    [msg |-> "progress", type |-> "progress",
     done |-> IF show THEN done ELSE 0, total |-> total, show |-> show]

\* a faulty per-file report that counts from zero (sensitivity of C18)
FileProgress_FromZero(i, total) == updateProgress(i - 1, total, TRUE)

\* updateProgress(((i + 1) / total) * 100, true) after file i (counted from 1)
FileProgress(i, total) == updateProgress(i, total, TRUE)

Did(toasts, rendered, created, removed, revoked) ==
    [toasts |-> toasts, rendered |-> rendered, created |-> created,
     removed |-> removed, revoked |-> revoked]

\* a step that shows nothing and touches no node
Quiet == Did(<<>>, FALSE, {}, {}, {})

\* a step that only shows toasts
Shows(toasts) == Did(toasts, FALSE, {}, {}, {})

IdleUpload ==
    [pc |-> "idle", files |-> <<>>, i |-> 0, tag |-> <<>>,
     successCount |-> 0]

\* ------------------------------------------------------------ the store
Record(fileName, data, userTag) ==
    [fileName |-> fileName, data |-> data, userTag |-> userTag]

\* objectStore.put(item), keyPath fileName
StorePut(st, item) ==
    [k \in DOMAIN st \cup {item.fileName} |->
        IF k = item.fileName THEN [data |-> item.data, userTag |-> item.userTag]
        ELSE st[k]]

\* objectStore.delete(key)
StoreDelete(st, key) == [k \in DOMAIN st \ {key} |-> st[k]]

EmptyStore == [k \in {} |-> 0]

\* the keys of a set, in IndexedDB key order
RECURSIVE SortKeys(_)
SortKeys(S) ==
    IF S = {} THEN <<>>
    ELSE LET m == CHOOSE x \in S : \A y \in S \ {x} : StrLess(x, y)
         IN  <<m>> \o SortKeys(S \ {m})

\* objectStore.getAll(): every record, by ascending key
StoreGetAll(st) ==
    LET keys == SortKeys(DOMAIN st)
    IN  [i \in 1..Len(keys) |->
            Record(keys[i], st[keys[i]].data, st[keys[i]].userTag)]

\* --------------------------------------------------------- Font Registry
Names(recs) == {recs[i].fileName : i \in 1..Len(recs)}

\* STATE.fonts.find(f => f.fileName === fileName): its index, 0 if none
FindIndex(recs, fileName) ==
    IF fileName \in Names(recs)
    THEN CHOOSE i \in 1..Len(recs) :
            /\ recs[i].fileName = fileName
            /\ \A j \in 1..(i - 1) : recs[j].fileName # fileName
    ELSE 0

\* the predicate of filter()
Matches(f, q) ==
    \/ (f.fileName # <<>> /\ includes(toLowerCase(f.fileName), q))
    \/ (f.userTag # <<>> /\ includes(toLowerCase(f.userTag), q))

\* getFontUrl: the URL, and the cache after the call.  data is always a
\* Blob here: every record is written by handleUpload.
ObjectUrl(fileName, data) == [name |-> fileName, blob |-> data]

getFontUrl(urls, fileName, data) ==
    IF fileName \in DOMAIN urls THEN urls
    ELSE [k \in DOMAIN urls \cup {fileName} |->
             IF k = fileName THEN ObjectUrl(fileName, data) ELSE urls[k]]

\* a faulty injectFontFace without the loadedFonts test (sensitivity of C11)
injectFontFace_NoGuard(r, fileName, data) ==
    LET fontId == safeFontId(fileName, data)
        urls == getFontUrl(r.urls, fileName, data)
    IN  [r EXCEPT !.urls = urls,
                  !.sheet = Append(@, [fontId |-> fontId,
                                       url |-> urls[fileName]]),
                  !.loaded = @ \cup {fontId}]

\* injectFontFace on r = [loaded, urls, sheet, ...]
injectFontFace(r, fileName, data) ==
    LET fontId == safeFontId(fileName, data)
    IN  IF fontId \in r.loaded THEN r
        ELSE LET urls == getFontUrl(r.urls, fileName, data)
             IN  [r EXCEPT !.urls = urls,
                           !.sheet = Append(@, [fontId |-> fontId,
                                                url |-> urls[fileName]]),
                           !.loaded = @ \cup {fontId}]

\* ---------------------------------------------------------- List Renderer
RemoveNode(g, node) == SelectSeq(g, LAMBDA n : n # node)

IndexOf(g, node) == CHOOSE i \in 1..Len(g) : g[i] = node

\* a faulty insertBefore that leaves the children as they are
\* (sensitivity of C9)
insertBefore_Skipped(g, node, ref) == g

\* parent.insertBefore(node, ref): node is moved if it is already a child
insertBefore(g, node, ref) ==
    LET g1 == RemoveNode(g, node)
        at == IndexOf(g1, ref)
    IN  SubSeq(g1, 1, at - 1) \o <<node>> \o SubSeq(g1, at, Len(g1))

\* parent.appendChild(node)
appendChild(g, node) == Append(RemoveNode(g, node), node)

\* the body of STATE.filtered.forEach in render, from the index-th record on
RECURSIVE RenderEach(_, _, _)
RenderEach(r, flt, index) ==
    IF index > Len(flt) THEN r
    ELSE
      LET font == flt[index]
          isNew == font.fileName \notin r.map
          r1 == IF isNew
                THEN [injectFontFace(r, font.fileName, font.data) EXCEPT
                         !.map = @ \cup {font.fileName},
                         !.created = @ \cup {font.fileName}]
                ELSE r
          card == Card(font.fileName)
          \* DOM.grid.children[index], the index counted from 0
          hasChild == index <= Len(r1.grid)
          g == IF hasChild /\ r1.grid[index] = card THEN r1.grid
               ELSE IF ~hasChild THEN appendChild(r1.grid, card)
               ELSE insertBefore(r1.grid, card, r1.grid[index])
      IN  RenderEach([r1 EXCEPT !.grid = g], flt, index + 1)

\* a faulty cleanup that drops every entry (sensitivity of C10)
StaleEntries_All(map, validKeys) == map

\* the entries the cleanup loop of render removes
StaleEntries(map, validKeys) == {k \in map : k \notin validKeys}

\* render() on r = [map, grid, loaded, urls, sheet, created, removed]
render(r, flt) ==
    LET validKeys == Names(flt)
        gone == StaleEntries(r.map, validKeys)
        g1 == SelectSeq(r.grid, LAMBDA n : \A k \in gone : n # Card(k))
        g2 == IF flt = <<>>
              THEN (IF EmptyState \in Range(g1) THEN g1
                    ELSE appendChild(g1, EmptyState))
              ELSE RemoveNode(g1, EmptyState)
    IN  RenderEach([r EXCEPT !.map = @ \ gone, !.grid = g2,
                             !.removed = @ \cup gone], flt, 1)

\* filter(): the new filtered list and the render pass
filter(r, fnts, q) ==
    LET flt == SelectSeq(fnts, LAMBDA f : Matches(f, toLowerCase(q)))
    IN  [render(r, flt) EXCEPT !.filtered = flt]

\* the renderer's view of the state
Dom ==
    [map |-> renderedMap, grid |-> grid, loaded |-> loadedFonts,
     urls |-> objectUrls, sheet |-> sheet, filtered |-> filtered,
     created |-> {}, removed |-> {}]

SetDom(r) ==
    /\ renderedMap' = r.map
    /\ grid' = r.grid
    /\ loadedFonts' = r.loaded
    /\ objectUrls' = r.urls
    /\ sheet' = r.sheet
    /\ filtered' = r.filtered

\* a faulty loadFonts that does not call filter() (sensitivity of C12)
loadFontsBody_NoFilter(res) ==
    [Dom EXCEPT !.grid = <<>>, !.map = {}, !.sheet = <<>>,
                !.loaded = {}, !.removed = renderedMap]

\* the part of loadFonts after the await, on the getAll result res
loadFontsBody(res) ==
    filter([Dom EXCEPT !.grid = <<>>, !.map = {}, !.sheet = <<>>,
                       !.loaded = {}, !.removed = renderedMap],
           res, search)

\* --------------------------------------------------------------- actions
NoUrls == [k \in {} |-> 0]
IdleExport == [pc |-> "idle", list |-> <<>>, i |-> 0]

\* a request in dbQ: its operation, whether it succeeds, the handler that
\* awaits it (for a put, the upload slot), and the result of getAll or the
\* key of delete
Request(op, ok, who, slot, arg) ==
    [op |-> op, ok |-> ok, who |-> who, slot |-> slot, arg |-> arg]

\* DB.getAll() by loadFonts
GetAll(who) == Request("getAll", TRUE, who, 0, StoreGetAll(store))

\* the page after init() has opened the database, deferred loadFonts to
\* an idle callback and attached the listeners
Init ==
    /\ store = EmptyStore
    /\ fonts = <<>>
    /\ filtered = <<>>
    /\ search = <<>>
    /\ isProcessing = FALSE
    /\ objectUrls = NoUrls
    /\ loadedFonts = {}
    /\ sheet = <<>>
    /\ renderedMap = {}
    /\ grid = <<>>
    /\ initPc = "deferred"
    /\ up = [p \in Slots |-> IdleUpload]
    /\ clearPc = "idle"
    /\ exportPc = IdleExport
    /\ dbQ = <<>>
    /\ gestures = 0
    /\ last = Quiet

\* the handlers that are suspended
InFlight ==
    (IF initPc = "deferred" THEN 1 ELSE 0)
    + Cardinality({p \in Slots : up[p].pc # "idle"})
    + (IF clearPc # "idle" THEN 1 ELSE 0)
    + (IF exportPc.pc # "idle" THEN 1 ELSE 0)
    + Len(SelectSeq(dbQ, LAMBDA q : \/ q.op = "delete"
                                    \/ (q.op = "getAll" /\ q.who # "clear")))

\* a user gesture is followed, and may start a handler
Gesture ==
    /\ gestures < MaxGestures
    /\ gestures' = gestures + 1

Start == Gesture /\ InFlight < MaxInFlight

\* the user reloads the page: the store is all that survives
Reload ==
    /\ store' = store
    /\ fonts' = <<>>
    /\ filtered' = <<>>
    /\ search' = <<>>
    /\ isProcessing' = FALSE
    /\ objectUrls' = NoUrls
    /\ loadedFonts' = {}
    /\ sheet' = <<>>
    /\ renderedMap' = {}
    /\ grid' = <<>>
    /\ initPc' = "deferred"
    /\ up' = [p \in Slots |-> IdleUpload]
    /\ clearPc' = "idle"
    /\ exportPc' = IdleExport
    /\ dbQ' = <<>>
    /\ gestures' = 0
    /\ last' = Quiet

\* the idle callback (or the 10 ms timer) of init runs loadFonts up to its
\* await
InitLoad ==
    /\ initPc = "deferred"
    /\ initPc' = "done"
    /\ dbQ' = Append(dbQ, GetAll("init"))
    /\ last' = Quiet
    /\ UNCHANGED <<store, fonts, filtered, search, isProcessing, objectUrls,
                   loadedFonts, sheet, renderedMap, grid, up, clearPc,
                   exportPc, gestures>>

\* loadFonts after its await; for the loadFonts of clearAll the rest of
\* the promise chain (then, finally) runs in the same turn
LoadFonts ==
    /\ dbQ # <<>>
    /\ Head(dbQ).op = "getAll"
    /\ LET h == Head(dbQ)
           r == loadFontsBody(h.arg)
       IN  /\ fonts' = h.arg
           /\ SetDom(r)
           /\ dbQ' = Tail(dbQ)
           /\ IF h.who = "clear"
              THEN /\ isProcessing' = FALSE
                   /\ clearPc' = "idle"
                   /\ last' = Did(<<Toast("cleared", "success", <<>>)>>,
                                  TRUE, r.created, r.removed, {})
              ELSE /\ last' = Did(<<>>, TRUE, r.created, r.removed, {})
                   /\ UNCHANGED <<isProcessing, clearPc>>
    /\ UNCHANGED <<store, search, initPc, up, exportPc, gestures>>

\* the debounce timer of the search box fires
SearchInput(q) ==
    /\ Gesture
    /\ LET r == filter(Dom, fonts, q)
       IN  /\ search' = q
           /\ SetDom(r)
           /\ last' = Did(<<>>, TRUE, r.created, r.removed, {})
    /\ UNCHANGED <<store, fonts, isProcessing, initPc, up, clearPc,
                   exportPc, dbQ>>

\* updateTag, from the change event of a card's tag field.  The record is
\* mutated in place, and filtered holds the same object; nothing awaits
\* the put.
UpdateTag(fileName, rawTag, putOk) ==
    /\ Gesture
    /\ fileName \in renderedMap
    /\ LET tag == sanitizeTag(rawTag)
           at == FindIndex(fonts, fileName)
       IN  IF at # 0
           THEN /\ fonts' = [fonts EXCEPT ![at].userTag = tag]
                /\ filtered' = [i \in 1..Len(filtered) |->
                                   IF filtered[i].fileName = fileName
                                   THEN [filtered[i] EXCEPT !.userTag = tag]
                                   ELSE filtered[i]]
                /\ store' = IF putOk THEN StorePut(store, fonts'[at])
                            ELSE store
           ELSE UNCHANGED <<fonts, filtered, store>>
    /\ last' = Quiet
    /\ UNCHANGED <<search, isProcessing, objectUrls, loadedFonts, sheet,
                   renderedMap, grid, initPc, up, clearPc, exportPc, dbQ>>

\* ---------------------------------------------------------- handleUpload
\* the least free slot takes the invocation
FreeSlot(p) ==
    /\ up[p].pc = "idle"
    /\ \A o \in Slots : o < p => up[o].pc # "idle"

hasValidExtension(f) ==
    \E e \in 1..Len(validExtensions) :
        endsWith(toLowerCase(f.name), validExtensions[e])

\* a faulty limit check, one record too lenient (sensitivity of C5)
OverLimit_OffByOne(count, n) == count + n > MAX_FONTS + 1

\* the limit check of handleUpload
OverLimit(count, n) == count + n > MAX_FONTS

\* a faulty loop that ends the batch at the first oversize file
\* (sensitivity of C16)
NextFile_Abort(files, i, toasts) ==
    IF i > Len(files) THEN [pc |-> "final", i |-> i, toasts |-> toasts]
    ELSE IF files[i].size > MAX_FILE_SIZE
         THEN [pc |-> "final", i |-> Len(files) + 1,
               toasts |-> toasts \o
                          <<Toast("oversize", "error", files[i].name),
                            FileProgress(i, Len(files))>>]
         ELSE [pc |-> "sig", i |-> i, toasts |-> toasts]

\* the for loop from file i up to its next await: files over the size cap
\* are reported and skipped without a yield, each with its toast and then
\* its progress report
RECURSIVE NextFile(_, _, _)
NextFile(files, i, toasts) ==
    IF i > Len(files) THEN [pc |-> "final", i |-> i, toasts |-> toasts]
    ELSE IF files[i].size > MAX_FILE_SIZE
         THEN NextFile(files, i + 1,
                       toasts \o <<Toast("oversize", "error", files[i].name),
                                   FileProgress(i, Len(files))>>)
         ELSE [pc |-> "sig", i |-> i, toasts |-> toasts]

\* STATE.isProcessing = true, updateProgress(0, true), and the loop up to
\* the first await
BeginBatch(p, files) ==
    LET nf == NextFile(files, 1, <<updateProgress(0, Len(files), TRUE)>>)
    IN  /\ isProcessing' = TRUE
        /\ up' = [up EXCEPT ![p] = [IdleUpload EXCEPT !.pc = nf.pc,
                                        !.files = files, !.i = nf.i]]
        /\ last' = Shows(nf.toasts)

\* handleUpload(files), from the file input or a drop, up to its first
\* await; hasEstimate: navigator.storage.estimate exists
HandleUpload(p, files, hasEstimate) ==
    /\ Start
    /\ FreeSlot(p)
    /\ LET validFiles == SelectSeq(files, hasValidExtension)
       IN  IF isProcessing
           THEN /\ last' = Quiet
                /\ UNCHANGED <<isProcessing, up>>
           ELSE IF validFiles = <<>>
           THEN /\ last' = Shows(<<Toast("unsupported", "error", <<>>)>>)
                /\ UNCHANGED <<isProcessing, up>>
           ELSE IF OverLimit(Len(fonts), Len(validFiles))
           THEN /\ last' = Shows(<<Toast("limit", "error", <<>>)>>)
                /\ UNCHANGED <<isProcessing, up>>
           ELSE IF hasEstimate
           THEN /\ up' = [up EXCEPT ![p] = [IdleUpload EXCEPT
                                               !.pc = "estimate",
                                               !.files = validFiles]]
                /\ last' = Quiet
                /\ UNCHANGED isProcessing
           ELSE BeginBatch(p, validFiles)
    /\ UNCHANGED <<store, fonts, filtered, search, objectUrls, loadedFonts,
                   sheet, renderedMap, grid, initPc, clearPc, exportPc, dbQ>>

\* validFiles.reduce((acc, f) => acc + f.size, 0)
RECURSIVE totalUploadSize(_)
totalUploadSize(files) ==
    IF files = <<>> THEN 0
    ELSE Head(files).size + totalUploadSize(Tail(files))

\* what navigator.storage.estimate() settles with: { quota, usage }, or the
\* call throws
Estimate(quota, usage) == [throws |-> FALSE, quota |-> quota, usage |-> usage]
EstimateThrows == [throws |-> TRUE, quota |-> 0, usage |-> 0]
Estimates ==
    {EstimateThrows} \cup
    {Estimate(1024 + free, 1024) : free \in {1023, 2047, 2048}}

\* a faulty space check that looks at the first file only
\* (sensitivity of C19)
InsufficientSpace_FirstFile(estimate, files) ==
    (estimate.quota - estimate.usage) < files[1].size

\* (quota - usage) < totalUploadSize
InsufficientSpace(estimate, files) ==
    (estimate.quota - estimate.usage) < totalUploadSize(files)

\* navigator.storage.estimate() settles: enough space, too little, or the
\* call throws
UploadEstimate(p, outcome) ==
    /\ up[p].pc = "estimate"
    /\ IF ~outcome.throws /\ InsufficientSpace(outcome, up[p].files)
       THEN /\ up' = [up EXCEPT ![p] = IdleUpload]
            /\ last' = Shows(<<Toast("quota", "error", <<>>)>>)
            /\ UNCHANGED isProcessing
       ELSE BeginBatch(p, up[p].files)
    /\ UNCHANGED <<store, fonts, filtered, search, objectUrls, loadedFonts,
                   sheet, renderedMap, grid, initPc, clearPc, exportPc, dbQ,
                   gestures>>

\* Security.checkSignature(file) resolves
UploadSignature(p) ==
    /\ up[p].pc = "sig"
    /\ LET u == up[p]
           file == u.files[u.i]
       IN  IF ~checkSignature(file)
           THEN LET nf == NextFile(u.files, u.i + 1,
                             <<Toast("badSignature", "error", file.name),
                               FileProgress(u.i, Len(u.files))>>)
                IN  /\ up' = [up EXCEPT ![p].pc = nf.pc, ![p].i = nf.i]
                    /\ last' = Shows(nf.toasts)
           ELSE LET at == FindIndex(fonts, file.name)
                    tag == IF at # 0 THEN fonts[at].userTag ELSE <<>>
                IN  /\ up' = [up EXCEPT ![p].pc = "read", ![p].tag = tag]
                    /\ last' = Quiet
    /\ UNCHANGED <<store, fonts, filtered, search, isProcessing, objectUrls,
                   loadedFonts, sheet, renderedMap, grid, initPc, clearPc,
                   exportPc, dbQ, gestures>>

\* readFileBuffer(file) settles; when it resolves DB.put is issued
UploadRead(p, readOk, putOk) ==
    /\ up[p].pc = "read"
    /\ (~readOk => putOk)
    /\ LET u == up[p]
           file == u.files[u.i]
       IN  IF ~readOk
           THEN /\ up' = [up EXCEPT ![p].pc = "raf", ![p].tag = <<>>]
                /\ last' = Shows(<<Toast("readFailed", "error", file.name),
                                   FileProgress(u.i, Len(u.files))>>)
                /\ UNCHANGED <<store, dbQ>>
           ELSE /\ store' = IF putOk
                            THEN StorePut(store,
                                     Record(file.name, Blob(file), u.tag))
                            ELSE store
                /\ dbQ' = Append(dbQ, Request("put", putOk, "upload", p, <<>>))
                /\ up' = [up EXCEPT ![p].pc = "put", ![p].tag = <<>>]
                /\ last' = Quiet
    /\ UNCHANGED <<fonts, filtered, search, isProcessing, objectUrls,
                   loadedFonts, sheet, renderedMap, grid, initPc, clearPc,
                   exportPc, gestures>>

\* DB.put settles
UploadPut(p) ==
    /\ up[p].pc = "put"
    /\ dbQ # <<>>
    /\ Head(dbQ).op = "put"
    /\ Head(dbQ).slot = p
    /\ LET u == up[p]
           file == u.files[u.i]
       IN  IF Head(dbQ).ok
           THEN /\ up' = [up EXCEPT ![p].pc = "raf",
                                    ![p].successCount = @ + 1]
                /\ last' = Shows(<<FileProgress(u.i, Len(u.files))>>)
           ELSE /\ up' = [up EXCEPT ![p].pc = "raf"]
                /\ last' = Shows(<<Toast("readFailed", "error", file.name),
                                   FileProgress(u.i, Len(u.files))>>)
    /\ dbQ' = Tail(dbQ)
    /\ UNCHANGED <<store, fonts, filtered, search, isProcessing, objectUrls,
                   loadedFonts, sheet, renderedMap, grid, initPc, clearPc,
                   exportPc, gestures>>

\* the animation frame after a file: on to the next file
UploadFrame(p) ==
    /\ up[p].pc = "raf"
    /\ LET u == up[p]
           nf == NextFile(u.files, u.i + 1, <<>>)
       IN  /\ up' = [up EXCEPT ![p].pc = nf.pc, ![p].i = nf.i]
           /\ last' = Shows(nf.toasts)
    /\ UNCHANGED <<store, fonts, filtered, search, isProcessing, objectUrls,
                   loadedFonts, sheet, renderedMap, grid, initPc, clearPc,
                   exportPc, dbQ, gestures>>

\* a faulty final timer that leaves the busy flag set (sensitivity of C17)
UploadFinish_KeepsFlag(p) ==
    /\ up[p].pc = "final"
    /\ dbQ' = Append(dbQ, GetAll("upload"))
    /\ up' = [up EXCEPT ![p] = IdleUpload]
    /\ last' = Shows(<<updateProgress(1, 1, FALSE)>> \o
                     (IF up[p].successCount > 0
                      THEN <<Toast("uploaded", "success", <<>>)>> ELSE <<>>))
    /\ UNCHANGED <<store, fonts, filtered, search, isProcessing, objectUrls,
                   loadedFonts, sheet, renderedMap, grid, initPc, clearPc,
                   exportPc, gestures>>

\* the 600 ms timer after the loop
UploadFinish(p) ==
    /\ up[p].pc = "final"
    /\ isProcessing' = FALSE
    /\ dbQ' = Append(dbQ, GetAll("upload"))
    /\ up' = [up EXCEPT ![p] = IdleUpload]
    /\ last' = Shows(<<updateProgress(1, 1, FALSE)>> \o
                     (IF up[p].successCount > 0
                      THEN <<Toast("uploaded", "success", <<>>)>> ELSE <<>>))
    /\ UNCHANGED <<store, fonts, filtered, search, objectUrls, loadedFonts,
                   sheet, renderedMap, grid, initPc, clearPc, exportPc,
                   gestures>>

\* -------------------------------------------------------- deleteSingleFont
\* the delete button of a card, confirmed: DB.delete is issued.  (A
\* dismissed confirm returns without any effect.)
DeleteSingleFont(fileName, ok) ==
    /\ Start
    /\ fileName \in renderedMap
    /\ store' = IF ok THEN StoreDelete(store, fileName) ELSE store
    /\ dbQ' = Append(dbQ, Request("delete", ok, "delete", 0, fileName))
    /\ last' = Quiet
    /\ UNCHANGED <<fonts, filtered, search, isProcessing, objectUrls,
                   loadedFonts, sheet, renderedMap, grid, initPc, up,
                   clearPc, exportPc>>

\* the then callback of DB.delete(fileName)
DeleteResolved(k) ==
    LET fonts1 == SelectSeq(fonts, LAMBDA f : f.fileName # k)
        cached == k \in DOMAIN objectUrls
        hasEntry == k \in renderedMap
        r == filter([Dom EXCEPT
                !.urls = [n \in DOMAIN objectUrls \ {k} |-> objectUrls[n]],
                !.map = @ \ {k},
                !.grid = RemoveNode(@, Card(k)),
                !.removed = IF hasEntry THEN {k} ELSE {}],
              fonts1, search)
    IN  /\ fonts' = fonts1
        /\ SetDom(r)
        /\ last' = Did(<<Toast("deleted", "success", <<>>)>>, TRUE,
                       r.created, r.removed,
                       IF cached THEN {objectUrls[k]} ELSE {})

\* DB.delete settles: the then callback, or catch
DeleteSettled ==
    /\ dbQ # <<>>
    /\ Head(dbQ).op = "delete"
    /\ IF Head(dbQ).ok
       THEN DeleteResolved(Head(dbQ).arg)
       ELSE /\ last' = Shows(<<Toast("deleteFailed", "error", <<>>)>>)
            /\ UNCHANGED <<fonts, filtered, objectUrls, loadedFonts, sheet,
                           renderedMap, grid>>
    /\ dbQ' = Tail(dbQ)
    /\ UNCHANGED <<store, search, isProcessing, initPc, up, clearPc,
                   exportPc, gestures>>

\* ---------------------------------------------------------------- clearAll
\* clearAll, confirmed: DB.clear is issued unless the busy flag is set
ClearAll(ok) ==
    /\ Start
    /\ clearPc = "idle"
    /\ IF isProcessing
       THEN /\ last' = Quiet
            /\ UNCHANGED <<isProcessing, store, clearPc, dbQ>>
       ELSE /\ isProcessing' = TRUE
            /\ store' = IF ok THEN EmptyStore ELSE store
            /\ dbQ' = Append(dbQ, Request("clear", ok, "clear", 0, <<>>))
            /\ clearPc' = "clearing"
            /\ last' = Quiet
    /\ UNCHANGED <<fonts, filtered, search, objectUrls, loadedFonts, sheet,
                   renderedMap, grid, initPc, up, exportPc>>

\* DB.clear settles: the first then (up to the await of loadFonts), or
\* catch and finally
ClearSettled ==
    /\ dbQ # <<>>
    /\ Head(dbQ).op = "clear"
    /\ IF Head(dbQ).ok
       THEN /\ objectUrls' = NoUrls
            /\ dbQ' = Append(Tail(dbQ), GetAll("clear"))
            /\ clearPc' = "loading"
            /\ last' = Did(<<>>, FALSE, {}, {},
                           {objectUrls[k] : k \in DOMAIN objectUrls})
            /\ UNCHANGED isProcessing
       ELSE /\ isProcessing' = FALSE
            /\ clearPc' = "idle"
            /\ dbQ' = Tail(dbQ)
            /\ last' = Shows(<<Toast("clearFailed", "error", <<>>)>>)
            /\ UNCHANGED objectUrls
    /\ UNCHANGED <<store, fonts, filtered, search, loadedFonts, sheet,
                   renderedMap, grid, initPc, up, exportPc, gestures>>

\* --------------------------------------------------------------- exportPDF
\* chunk.forEach of exportPDF: injectFontFace for list[from..to]
RECURSIVE InjectChunk(_, _, _, _)
InjectChunk(r, list, from, to) ==
    IF from > to \/ from > Len(list) THEN r
    ELSE InjectChunk(injectFontFace(r, list[from].fileName, list[from].data),
                     list, from + 1, to)

\* updateProgress(Math.min(((i + CHUNK_SIZE) / total) * 100, 100), true)
ChunkProgress(i, total) ==
    updateProgress(IF i + CHUNK_SIZE < total THEN i + CHUNK_SIZE ELSE total,
                   total, TRUE)

\* exportPDF up to its first await
ExportPDF ==
    /\ Start
    /\ exportPc.pc = "idle"
    /\ IF search # <<>> /\ filtered = <<>>
       THEN /\ last' = Shows(<<Toast("noResults", "error", <<>>)>>)
            /\ UNCHANGED <<isProcessing, exportPc, loadedFonts, objectUrls,
                           sheet>>
       ELSE IF fonts = <<>>
       THEN /\ last' = Shows(<<Toast("noData", "error", <<>>)>>)
            /\ UNCHANGED <<isProcessing, exportPc, loadedFonts, objectUrls,
                           sheet>>
       ELSE LET list == IF filtered # <<>> THEN filtered ELSE fonts
                r == InjectChunk(Dom, list, 1, CHUNK_SIZE)
            IN  /\ isProcessing' = TRUE
                /\ loadedFonts' = r.loaded
                /\ objectUrls' = r.urls
                /\ sheet' = r.sheet
                /\ exportPc' = [pc |-> "raf", list |-> list, i |-> 0]
                /\ last' = Shows(<<updateProgress(0, Len(list), TRUE),
                                   ChunkProgress(0, Len(list))>>)
    /\ UNCHANGED <<store, fonts, filtered, search, renderedMap, grid, initPc,
                   up, clearPc, dbQ>>

\* the animation frame after a chunk: the next chunk, or the 500 ms timer
ExportFrame ==
    /\ exportPc.pc = "raf"
    /\ LET i == exportPc.i + CHUNK_SIZE
       IN  IF i < Len(exportPc.list)
           THEN LET r == InjectChunk(Dom, exportPc.list, i + 1, i + CHUNK_SIZE)
                IN  /\ loadedFonts' = r.loaded
                    /\ objectUrls' = r.urls
                    /\ sheet' = r.sheet
                    /\ exportPc' = [exportPc EXCEPT !.i = i]
                    /\ last' = Shows(<<ChunkProgress(i, Len(exportPc.list))>>)
           ELSE /\ exportPc' = [pc |-> "timer", list |-> <<>>, i |-> 0]
                /\ last' = Quiet
                /\ UNCHANGED <<loadedFonts, objectUrls, sheet>>
    /\ UNCHANGED <<store, fonts, filtered, search, isProcessing, renderedMap,
                   grid, initPc, up, clearPc, dbQ, gestures>>

\* the 500 ms timer: the flag is reset and the print dialog opens
ExportPrint ==
    /\ exportPc.pc = "timer"
    /\ isProcessing' = FALSE
    /\ exportPc' = IdleExport
    /\ last' = Shows(<<updateProgress(1, 1, FALSE)>>)
    /\ UNCHANGED <<store, fonts, filtered, search, objectUrls, loadedFonts,
                   sheet, renderedMap, grid, initPc, up, clearPc, dbQ,
                   gestures>>

\* ------------------------------------------------------- the specification
Next ==
    \/ Reload
    \/ InitLoad
    \/ LoadFonts
    \/ \E q \in Searches : SearchInput(q)
    \/ \E k \in TagEdited, t \in RawTags, ok \in BOOLEAN : UpdateTag(k, t, ok)
    \/ \E p \in Slots, b \in Batches, e \in BOOLEAN : HandleUpload(p, b, e)
    \/ \E p \in Slots, o \in Estimates : UploadEstimate(p, o)
    \/ \E p \in Slots : UploadSignature(p)
    \/ \E p \in Slots, rd \in BOOLEAN, ok \in BOOLEAN : UploadRead(p, rd, ok)
    \/ \E p \in Slots : UploadPut(p)
    \/ \E p \in Slots : UploadFrame(p)
    \/ \E p \in Slots : UploadFinish(p)
    \/ \E k \in FileNames, ok \in BOOLEAN : DeleteSingleFont(k, ok)
    \/ DeleteSettled
    \/ \E ok \in BOOLEAN : ClearAll(ok)
    \/ ClearSettled
    \/ ExportPDF
    \/ ExportFrame
    \/ ExportPrint

Spec == Init /\ [][Next]_vars

\* ------------------------------------------------------------- the claims
\* an upload batch is past its guards: the flag was set by it and its
\* 600 ms timer has not fired yet
InBatch(p) == up[p].pc \in {"sig", "read", "put", "raf", "final"}

\* a full-library clear is under way
InClear == clearPc # "idle"

\* C1: the busy flag gives mutual exclusion: at most one of the upload
\* batches and the full-library clear is in progress in any state.
C1_MutualExclusion ==
    Cardinality({p \in Slots : InBatch(p)}) + (IF InClear THEN 1 ELSE 0) <= 1

\* C2: filtered is exactly the subsequence of fonts, in order, of the records
\* whose fileName or userTag contains the search string without regard to
\* case, after every operation.
C2_FilteredIsExact ==
    filtered = SelectSeq(fonts, LAMBDA f : Matches(f, toLowerCase(search)))

\* a store operation of updateTag, deleteSingleFont or clearAll fails
StoreOpFails ==
    \/ \E k \in TagEdited, t \in RawTags : UpdateTag(k, t, FALSE)
    \/ (dbQ # <<>> /\ Head(dbQ).op = "delete" /\ ~Head(dbQ).ok /\ DeleteSettled)
    \/ (dbQ # <<>> /\ Head(dbQ).op = "clear" /\ ~Head(dbQ).ok /\ ClearSettled)

ShowsError(l) == \E i \in 1..Len(l.toasts) : l.toasts[i].type = "error"

\* C3: when a put of updateTag, a delete or a clear fails, an error is
\* shown and fonts, filtered (with every userTag), the URL cache and the
\* rendered entries are as they were.
C3_FailureLeavesRegistry ==
    [][StoreOpFails =>
          /\ ShowsError(last')
          /\ UNCHANGED <<fonts, filtered, objectUrls, renderedMap, grid>>]_vars

\* C4: the store never holds more than MAX_FONTS records.
C4_StoreWithinCap == Cardinality(DOMAIN store) <= MAX_FONTS

\* ---- C5
\* handleUpload(b) is invoked
Uploads(b) == \E p \in Slots, e \in BOOLEAN : HandleUpload(p, b, e)

\* the files of b with an accepted extension: the batch size the code counts
BatchSize(b) == Len(SelectSeq(b, hasValidExtension))

\* the invocation is turned down: nothing is written or started, and one
\* error notification is shown
Rejected ==
    /\ store' = store
    /\ up' = up
    /\ dbQ' = dbQ
    /\ Len(last'.toasts) = 1
    /\ last'.toasts[1].type = "error"

\* C5 as stated: every handleUpload invoked with fonts.length + batchSize
\* over the cap writes nothing and shows exactly one rejection.
C5_RejectsOverCap ==
    [][\A b \in Batches :
          (Uploads(b) /\ Len(fonts) + BatchSize(b) > MAX_FONTS) => Rejected]_vars

\* C5, amended: a handleUpload invoked while the busy flag is clear, with
\* fonts.length + batchSize over the cap, writes nothing, starts no batch
\* and shows exactly one rejection.  (While the flag is set the invocation
\* is ignored without a notification.)
C5_RejectsOverCapWhenIdle ==
    [][\A b \in Batches :
          (/\ Uploads(b)
           /\ ~isProcessing
           /\ Len(fonts) + BatchSize(b) > MAX_FONTS) => Rejected]_vars

\* a batch was turned down by the limit check on a registry that holds
\* records
C5_Witness ==
    /\ last.toasts = <<Toast("limit", "error", <<>>)>>
    /\ fonts # <<>>
    /\ \A p \in Slots : up[p].pc = "idle"

\* ---- C6
\* 0x00010000, 0x4F54544F, 0x774F4646, 0x774F4632
FontMagic == {65536, 1330926671, 2001684038, 2001684018}

\* the first 4 bytes of f can be read and are, big-endian, a font magic
HasFontMagic(f) ==
    /\ f.sliceReadable
    /\ Len(f.header) >= 4
    /\ (f.header[1] * 16777216 + f.header[2] * 65536
          + f.header[3] * 256 + f.header[4]) \in FontMagic

\* the file a batch is working on
CurrentFile(p) == up[p].files[up[p].i]

\* a DB.put is issued in this step
PutIssued == Len(dbQ') > Len(dbQ) /\ dbQ'[Len(dbQ')].op = "put"

\* every record is the content of a file with its name and a font magic
RecordsAreFonts(st) ==
    \A k \in DOMAIN st :
        \E b \in Batches : \E i \in 1..Len(b) :
            /\ b[i].name = k
            /\ Blob(b[i]) = st[k].data
            /\ HasFontMagic(b[i])

\* C6: no step of a batch on a file without a font magic in its first 4
\* bytes (too short and unreadable files included) issues a DB.put or
\* changes the store, and no record ever holds such a file, whatever the
\* extension.
C6_NoRecordWithoutMagic ==
    [][/\ \A p \in Slots :
            (/\ up[p].pc \in {"sig", "read", "put", "raf"}
             /\ ~HasFontMagic(CurrentFile(p))
             /\ up'[p] # up[p]) => (store' = store /\ ~PutIssued)
       /\ RecordsAreFonts(store')]_vars

\* the PDF named b.otf was turned down by its signature, and the batch
\* went on to store the font after it
C6_Witness ==
    /\ \E p \in Slots :
          /\ up[p].files = <<File_bPdf, File_c>>
          /\ up[p].pc = "final"
          /\ up[p].successCount = 1
    /\ Name_b \notin DOMAIN store
    /\ Name_c \in DOMAIN store

\* ---- C7
\* the then callback of a DB.delete runs
DeleteSucceeds ==
    /\ dbQ # <<>>
    /\ Head(dbQ).op = "delete"
    /\ Head(dbQ).ok
    /\ DeleteSettled

Without(recs, k) == SelectSeq(recs, LAMBDA f : f.fileName # k)

\* C7: when the delete of k has succeeded, k is gone from fonts and
\* filtered, its URL is revoked and dropped, its entry and card are
\* removed; the other records stay in fonts and filtered in their order,
\* keep their entry and card (not recreated) and their cached URL.
C7_DeleteTouchesOnlyK ==
    [][DeleteSucceeds =>
          LET k == Head(dbQ).arg
          IN  /\ fonts' = Without(fonts, k)
              /\ filtered' = Without(filtered, k)
              /\ k \notin DOMAIN objectUrls'
              /\ (k \in DOMAIN objectUrls => objectUrls[k] \in last'.revoked)
              /\ k \notin renderedMap'
              /\ Card(k) \notin Range(grid')
              /\ \A o \in renderedMap \ {k} :
                    /\ o \in renderedMap'
                    /\ o \notin last'.created
                    /\ o \notin last'.removed
              /\ \A o \in DOMAIN objectUrls \ {k} :
                    /\ o \in DOMAIN objectUrls'
                    /\ objectUrls'[o] = objectUrls[o]]_vars

\* ---- C8
\* the last step completed a clearAll: its promise chain showed "cleared"
ClearDone ==
    \E i \in 1..Len(last.toasts) : last.toasts[i].msg = "cleared"

\* C8: when a clearAll whose DB.clear succeeded has run to completion, the
\* store, fonts, filtered, the rendered map and the URL cache are empty and
\* the busy flag is false.
C8_ClearLeavesNothing ==
    ClearDone =>
        /\ store = EmptyStore
        /\ fonts = <<>>
        /\ filtered = <<>>
        /\ renderedMap = {}
        /\ objectUrls = NoUrls
        /\ ~isProcessing

\* ---- C9
IsCard(n) == n # EmptyState

CardsOf(recs) == [i \in 1..Len(recs) |-> Card(recs[i].fileName)]

\* C9: after every render pass the rendered map has exactly the file names
\* of filtered, and the cards of the grid are those of filtered in the
\* order of filtered.
C9_RenderMatchesFiltered ==
    last.rendered =>
        /\ renderedMap = Names(filtered)
        /\ SelectSeq(grid, IsCard) = CardsOf(filtered)

\* a pass that put a new card in front of one that was already in the grid
C9_Witness ==
    /\ last.rendered
    /\ \E i \in 1..Len(filtered) : \E j \in (i + 1)..Len(filtered) :
          /\ filtered[i].fileName \in last.created
          /\ filtered[j].fileName \notin last.created

\* ---- C10
FileNamesOf(recs) == [i \in 1..Len(recs) |-> recs[i].fileName]

\* render runs again (from filter, on the search box or after a delete)
\* on the DOM a previous pass has left
RendersAgain ==
    /\ grid # <<>>
    /\ \/ \E q \in Searches : SearchInput(q)
       \/ DeleteSucceeds

\* C10: a render pass on the same filtered records as the pass before it
\* creates no card, removes none, and leaves the rendered map and the
\* children of the grid as they were.
C10_RenderIdempotent ==
    [][(RendersAgain /\ FileNamesOf(filtered') = FileNamesOf(filtered)) =>
          /\ last'.created = {}
          /\ last'.removed = {}
          /\ renderedMap' = renderedMap
          /\ grid' = grid]_vars

\* a pass over cards that were all there already
C10_Witness ==
    /\ last.rendered
    /\ last.toasts = <<>>
    /\ filtered # <<>>
    /\ last.created = {}
    /\ last.removed = {}

\* ---- C11
\* C11: the master style sheet never holds two font-face rules for the same
\* font identifier.
C11_OneRulePerFontId ==
    \A i \in 1..Len(sheet) : \A j \in 1..Len(sheet) :
        sheet[i].fontId = sheet[j].fontId => i = j

\* a pass of render made a card for a record whose rule was already in the
\* sheet: the card had been removed by a search and is shown again
C11_Witness ==
    /\ last.rendered
    /\ last.toasts = <<>>
    /\ last.created # {}
    /\ last.created # renderedMap
    /\ Len(sheet) = Cardinality(renderedMap)
    /\ Len(sheet) >= 2

\* ---- C12
\* C12: every record of filtered is a record of fonts, in every state
\* (the states between the steps of a handler included).
C12_FilteredWithinFonts ==
    \A i \in 1..Len(filtered) : filtered[i] \in Range(fonts)

\* a search shows some of the records and not others, while a request of a
\* handler is still awaited
C12_Witness ==
    /\ filtered # <<>>
    /\ Len(filtered) < Len(fonts)
    /\ dbQ # <<>>

\* ------------------------------------------------------ the tag field alone
\* updateTag on a loaded library of one record, for the strings a user can
\* put in the tag field: every string of at most MaxTagLen characters over
\* a space, a letter and U+0001, and two strings over the 40 character cap
MaxTagLen == 3

TagAlphabet == {" ", "w", "<01>"}

Rep(c, n) == [i \in 1..n |-> c]

TagStrings ==
    UNION {[1..n -> TagAlphabet] : n \in 0..MaxTagLen}
      \cup {Rep("w", TAG_MAX - 1) \o <<" ", "w">>, Rep("w", TAG_MAX + 1)}

\* the page after A.ttf was uploaded and loadFonts has shown it
InitTag ==
    LET rec == Record(Name_A, Blob(File_A), <<>>)
        r == filter([map |-> {}, grid |-> <<>>, loaded |-> {}, urls |-> NoUrls,
                     sheet |-> <<>>, filtered |-> <<>>, created |-> {},
                     removed |-> {}], <<rec>>, <<>>)
    IN  /\ store = StorePut(EmptyStore, rec)
        /\ fonts = <<rec>>
        /\ filtered = r.filtered
        /\ search = <<>>
        /\ isProcessing = FALSE
        /\ objectUrls = r.urls
        /\ loadedFonts = r.loaded
        /\ sheet = r.sheet
        /\ renderedMap = r.map
        /\ grid = r.grid
        /\ initPc = "done"
        /\ up = [p \in Slots |-> IdleUpload]
        /\ clearPc = "idle"
        /\ exportPc = IdleExport
        /\ dbQ = <<>>
        /\ gestures = 0
        /\ last = Did(<<>>, TRUE, r.created, r.removed, {})

NextTag ==
    \E t \in TagStrings, ok \in BOOLEAN : UpdateTag(Name_A, t, ok)

SpecTag == InitTag /\ [][NextTag]_vars

\* ---- C13
\* U+0000-001F, U+007F-009F, U+200E, U+200F, U+202A-202E, as far as the
\* strings of the model have them
ControlOrBidi ==
    {"\t", "\n", "<01>", "<7F>", "<200E>", "<200F>", "<202A>", "<202E>"}

BlankChars == {" ", "\t", "\n"}

CleanTag(t) ==
    /\ Len(t) <= 40
    /\ \A i \in 1..Len(t) : t[i] \notin ControlOrBidi
    /\ t # <<>> => (t[1] \notin BlankChars /\ t[Len(t)] \notin BlankChars)

\* C13: every userTag that updateTag has put in a record (of the registry
\* and of the store) has at most 40 characters, no control or
\* bidirectional-override character and no leading or trailing white space.
C13_StoredTagIsClean ==
    /\ \A i \in 1..Len(fonts) : CleanTag(fonts[i].userTag)
    /\ \A k \in DOMAIN store : CleanTag(store[k].userTag)

\* ---- C14
\* slot p issues the DB.put of its current file
UploadPuts(p) == up[p].pc = "read" /\ up'[p].pc = "put"

\* C14: the DB.put of an upload keeps the userTag the store has for that
\* file name (a re-upload stores the new record with the tag of the stored
\* one), in every interleaving.
C14_ReuploadKeepsStoredTag ==
    [][\A p \in Slots :
          UploadPuts(p) =>
              \A k \in DOMAIN store :
                  /\ k \in DOMAIN store'
                  /\ store'[k].userTag = store[k].userTag]_vars

\* ---- C15
\* C15: a batch comes to the signature check of a file either as its first
\* file, when the batch starts, or out of the animation frame that follows
\* the file before it: there is a yield between every two consecutive
\* files, whatever the outcome of the first.
C15_YieldBetweenFiles ==
    [][\A p \in Slots :
          (up'[p].pc = "sig" /\ up'[p] # up[p]) =>
              \/ (up[p].pc \in {"idle", "estimate"} /\ up'[p].i = 1)
              \/ (up[p].pc = "raf" /\ up'[p].i = up[p].i + 1)]_vars

\* ---- C16
\* slot p is in its loop over the files
InLoop(p) == up[p].pc \in {"sig", "read", "put", "raf"}

Oversize(f) == f.size > 50 * 1024 * 1024

\* the files of slot p from index a to index b are all over the size cap
AllOversize(files, a, b) ==
    \A j \in a..b : j \in 1..Len(files) => Oversize(files[j])

\* a step of the batch of slot p (not the end of the page)
BatchStep(p) == up'[p] # up[p] /\ ~Reload

\* C16: a failure of one file does not end the batch and creates no record.
\* A batch enters its loop at its first file within the size cap; a step of
\* the loop keeps the batch and its files; it leaves a file only when the
\* file is done (after its frame, or on a bad signature), and passes over
\* oversize files only; a file with a font magic goes on to be read; a read
\* whose put succeeds stores the file; and a step that reports a failure
\* leaves the store as it is.
C16_FailureDoesNotAbort ==
    [][\A p \in Slots :
          /\ (BatchStep(p) /\ up[p].pc \in {"idle", "estimate"}
                /\ up'[p].pc \in {"sig", "final"}) =>
                 AllOversize(up'[p].files, 1, up'[p].i - 1)
          /\ (BatchStep(p) /\ InLoop(p)) =>
                 /\ up'[p].files = up[p].files
                 /\ up'[p].pc \in {"sig", "read", "put", "raf", "final"}
                 /\ up'[p].i >= up[p].i
                 /\ up'[p].i > up[p].i =>
                       /\ \/ up[p].pc = "raf"
                          \/ (up[p].pc = "sig" /\ ~HasFontMagic(CurrentFile(p)))
                       /\ AllOversize(up[p].files, up[p].i + 1, up'[p].i - 1)
                 /\ (up[p].pc = "sig" /\ HasFontMagic(CurrentFile(p))) =>
                       (up'[p].pc = "read" /\ up'[p].i = up[p].i)
                 /\ (UploadPuts(p) /\ dbQ'[Len(dbQ')].ok) =>
                       /\ CurrentFile(p).name \in DOMAIN store'
                       /\ store'[CurrentFile(p).name].data = Blob(CurrentFile(p))
                 /\ ShowsError(last') => store' = store]_vars

\* b.otf could not be read or stored, and c.WOFF after it was stored
C16_Witness ==
    /\ \E p \in Slots :
          /\ up[p].files = <<File_b, File_c>>
          /\ up[p].pc = "final"
          /\ up[p].successCount = 1
    /\ Name_b \notin DOMAIN store
    /\ Name_c \in DOMAIN store
    /\ store[Name_c].data = Blob(File_c)

\* ------------------------------------------------------------- scheduling
\* the promise, animation frame or timer that the invocation in slot p
\* waits for settles or fires
Settle(p) ==
    \/ \E o \in Estimates : UploadEstimate(p, o)
    \/ UploadSignature(p)
    \/ \E rd \in BOOLEAN, ok \in BOOLEAN : UploadRead(p, rd, ok)
    \/ UploadPut(p)
    \/ UploadFrame(p)
    \/ UploadFinish(p)

\* the oldest request settles, when it is a getAll or a clear
SettleRequest == LoadFonts \/ ClearSettled

RequestDue == dbQ # <<>> /\ Head(dbQ).op \in {"getAll", "clear"}

\* the handlers that set or reset the busy flag, with page loads: uploads,
\* clearAll and exportPDF (no search, tag edit or single delete)
NextLive ==
    \/ Reload
    \/ InitLoad
    \/ LoadFonts
    \/ \E p \in Slots, b \in Batches, e \in BOOLEAN : HandleUpload(p, b, e)
    \/ \E p \in Slots : Settle(p)
    \/ \E ok \in BOOLEAN : ClearAll(ok)
    \/ ClearSettled
    \/ ExportPDF
    \/ ExportFrame
    \/ ExportPrint

\* the event loop runs every callback that is due: promises settle, frames
\* and timers fire.  The second condition is WF_vars(SettleRequest) with
\* ENABLED <<SettleRequest>>_vars written out as RequestDue.
SpecLive ==
    /\ Init
    /\ [][NextLive]_vars
    /\ \A p \in Slots : WF_vars(Settle(p))
    /\ ([]<>~RequestDue \/ []<><<SettleRequest>>_vars)

\* ---- C17
\* the invocation in slot p ends in this step (and the page does not)
Ends(p) == up[p].pc # "idle" /\ up'[p].pc = "idle" /\ ~Reload

\* loadFonts was called in this step: its getAll is the newest request
Reloads ==
    /\ Len(dbQ') = Len(dbQ) + 1
    /\ dbQ'[Len(dbQ')].op = "getAll"
    /\ dbQ'[Len(dbQ')].who = "upload"

\* C17: a batch that has passed its guards ends only by its finalisation,
\* which clears the busy flag and reloads the registry from the store, and
\* it does end, whatever the outcomes of its files; an invocation that a
\* guard turns down does not touch the busy flag.
C17_BatchReturnsToIdle ==
    /\ [][\A p \in Slots :
            /\ (Ends(p) /\ InBatch(p)) =>
                  (up[p].pc = "final" /\ ~isProcessing' /\ Reloads)
            /\ (Ends(p) /\ up[p].pc = "estimate") => UNCHANGED isProcessing
            /\ ((\E b \in Batches, e \in BOOLEAN : HandleUpload(p, b, e))
                  /\ up'[p].pc \in {"idle", "estimate"}) =>
                  UNCHANGED isProcessing]_vars
    /\ \A p \in Slots : InBatch(p) ~> (up[p].pc = "idle")

\* a batch none of whose files was stored has been finalised: no success
\* notification, the flag is clear and the reload is under way
C17_Witness ==
    /\ \A p \in Slots : up[p].pc = "idle"
    /\ ~isProcessing
    /\ last = Shows(<<updateProgress(1, 1, FALSE)>>)
    /\ dbQ # <<>>
    /\ dbQ[Len(dbQ)].op = "getAll"
    /\ dbQ[Len(dbQ)].who = "upload"
    /\ store = EmptyStore

\* ------------------------------------------------------------------- C18
\* the number of files of its batch the handler in record u is done with
FilesDone(u) ==
    IF u.pc = "raf" THEN u.i
    ELSE IF u.pc \in {"sig", "read", "put", "final"} THEN u.i - 1
    ELSE 0

\* the report "k of n files", shown
Fraction(k, n) ==
    [msg |-> "progress", type |-> "progress", done |-> k, total |-> n,
     show |-> TRUE]

Reports(events) == SelectSeq(events, LAMBDA e : e.msg = "progress")

\* the step starts the loop of slot p
Begins(p) == up[p].pc \in {"idle", "estimate"} /\ InBatch(p)'

\* what a step of the loop displayed, after the opening report of the batch
Displayed(p) == IF Begins(p) THEN Tail(last'.toasts) ELSE last'.toasts

\* C18: a step of an upload batch of n files takes the batch from a files
\* done to b >= a files done and displays exactly the reports (a+1)/n, ...,
\* b/n, in that order, whatever the outcome of each file; the failure toast
\* of a file is displayed immediately before the report of that file, so
\* after the report of the file before it and before anything of the next
\* file; a batch opens with the report 0/n, and the step that ends it
\* displays no report of a file.
C18_ProgressInOrder ==
    [][\A p \in Slots :
         /\ (BatchStep(p) /\ InBatch(p)') =>
               LET n == Len(up'[p].files)
                   a == FilesDone(up[p])
                   b == FilesDone(up'[p])
                   events == Displayed(p)
               IN  /\ Begins(p) => /\ last'.toasts # <<>>
                                   /\ Head(last'.toasts) = Fraction(0, n)
                   /\ a <= b
                   /\ b <= n
                   /\ Reports(events) = [k \in 1..(b - a) |-> Fraction(a + k, n)]
                   /\ \A j \in 1..Len(events) :
                         events[j].msg # "progress" =>
                            /\ events[j].type = "error"
                            /\ j < Len(events)
                            /\ events[j + 1].msg = "progress"
                            /\ events[j].name =
                                   up'[p].files[events[j + 1].done].name
         /\ Ends(p) => \A j \in 1..Len(last'.toasts) :
                          last'.toasts[j].msg = "progress" =>
                             ~last'.toasts[j].show]_vars

\* a batch of two files has begun: the first file was over the size cap, its
\* toast and then the report 1/2 were displayed, and the second file is next
C18_Witness ==
    \E p \in Slots :
        /\ up[p].pc = "sig"
        /\ up[p].i = 2
        /\ Len(up[p].files) = 2
        /\ last.toasts = <<Fraction(0, 2),
                           Toast("oversize", "error", up[p].files[1].name),
                           Fraction(1, 2)>>

\* ------------------------------------------------------------------- C19
\* estimate() has settled for slot p with the result e
Estimated(p, e) == up[p].pc = "estimate" /\ UploadEstimate(p, e)

\* handleUpload of the list b passes its three guards in slot p
Accepted(p, b, hasEstimate) ==
    /\ Start
    /\ FreeSlot(p)
    /\ ~isProcessing
    /\ dbQ' = dbQ
    /\ ~last'.rendered
    /\ BatchSize(b) > 0
    /\ ~(Len(fonts) + BatchSize(b) > MAX_FONTS)
    /\ HandleUpload(p, b, hasEstimate)

\* C19: when estimate() reports less free storage (quota - usage) than the
\* accepted files of the batch take together, the handler ends there: no
\* record is written and no request is issued, the busy flag is left as it
\* was, and exactly one toast, a warning, is shown; when the call throws or
\* reports enough space, and when there is no estimate() to call, the
\* handler goes on to the files with the busy flag set.
C19_QuotaAbortsBatch ==
    [][\A p \in Slots :
         /\ \A e \in Estimates :
               Estimated(p, e) =>
                  IF ~e.throws
                     /\ e.quota - e.usage < totalUploadSize(up[p].files)
                  THEN /\ up'[p].pc = "idle"
                       /\ UNCHANGED <<store, dbQ, isProcessing>>
                       /\ Len(last'.toasts) = 1
                       /\ last'.toasts[1].type = "error"
                  ELSE /\ InBatch(p)'
                       /\ isProcessing'
                       /\ up'[p].files = up[p].files
         /\ \A b \in Batches :
               /\ Accepted(p, b, TRUE) =>
                     /\ up'[p].pc = "estimate"
                     /\ UNCHANGED <<store, dbQ, isProcessing>>
               /\ Accepted(p, b, FALSE) =>
                     /\ InBatch(p)'
                     /\ isProcessing']_vars

\* a batch of two files of 1024 bytes met 2047 free bytes: one warning, the
\* handler is back at rest, nothing stored and the busy flag clear
C19_Witness ==
    /\ last.toasts = <<Toast("quota", "error", <<>>)>>
    /\ \A p \in Slots : up[p].pc = "idle"
    /\ ~isProcessing
    /\ store = EmptyStore
    /\ dbQ = <<>>

\* ------------------------------------------------------------------- C20
\* a newer version of A.ttf
File_ANew == File(Name_A, 1024, <<>>, <<0, 1, 0, 0>>, TRUE, 9)

\* the library holds A.ttf and is on screen; the user uploads the newer
\* A.ttf and edits the tag of the card of A.ttf, in any order
NextReupload ==
    \/ \E p \in Slots, e \in BOOLEAN : HandleUpload(p, <<File_ANew>>, e)
    \/ \E p \in Slots : Settle(p)
    \/ LoadFonts
    \/ \E t \in RawTags, ok \in BOOLEAN : UpdateTag(Name_A, t, ok)

SpecReupload == InitTag /\ [][NextReupload]_vars

\* updateTag(k, t) runs
TagEdit == \E t \in RawTags, ok \in BOOLEAN : UpdateTag(Name_A, t, ok)

\* C20: a tag edit leaves the data of every stored record as it was, so
\* the blob stored under a name stays the one uploaded last, also when the
\* edit comes between the put of a re-upload and the registry reload that
\* ends the batch.
C20_TagEditKeepsData ==
    [][TagEdit => \A k \in DOMAIN store :
                     /\ k \in DOMAIN store'
                     /\ store'[k].data = store[k].data]_vars

\* ------------------------------------------------------------------- C21
\* the font-face rules registered under the identifier of the record rec
RulesOf(rec) ==
    {i \in 1..Len(sheet) : sheet[i].fontId = safeFontId(rec.fileName, rec.data)}

\* C21: for every record of the registry that has a card, the URL in the
\* font-face rule of that record was created from the blob the registry
\* holds for it now: the URL cache never serves the URL of a blob that a
\* later upload under the same name has replaced.
C21_RuleUrlIsCurrent ==
    \A i \in 1..Len(fonts) :
        fonts[i].fileName \in renderedMap =>
            \A j \in RulesOf(fonts[i]) : sheet[j].url.blob = fonts[i].data

\* ------------------------------------------------------------------- C22
\* file names that differ only in a character that is not a letter or a
\* digit, after the sixth character
Name_Dash == <<"M", "y", "F", "o", "n", "t", "-", "B", ".", "t", "t", "f">>
Name_Under == <<"M", "y", "F", "o", "n", "t", "_", "B", ".", "t", "t", "f">>
Name_Plain == <<"M", "y", "F", "o", "n", "t", "B", ".", "t", "t", "f">>

File_Dash == File(Name_Dash, 1024, <<>>, <<0, 1, 0, 0>>, TRUE, 10)
File_Under == File(Name_Under, 1024, <<>>, <<0, 1, 0, 0>>, TRUE, 11)
File_Plain == File(Name_Plain, 1024, <<>>, <<0, 1, 0, 0>>, TRUE, 12)

\* the fonts a library is made of, and the libraries within the cap
LibraryFiles == {File_Dash, File_Under, File_Plain, File_A, File_b}
LibraryNames == {f.name : f \in LibraryFiles}
Libraries == {S \in SUBSET LibraryFiles : Cardinality(S) <= MAX_FONTS}

\* the store after the files of S have been uploaded
StoreOf(S) ==
    [n \in {f.name : f \in S} |->
        Record(n, Blob(CHOOSE f \in S : f.name = n), <<>>)]

\* the page has just been loaded on any of the libraries
InitLibrary ==
    /\ store \in {StoreOf(S) : S \in Libraries}
    /\ fonts = <<>>
    /\ filtered = <<>>
    /\ search = <<>>
    /\ isProcessing = FALSE
    /\ objectUrls = NoUrls
    /\ loadedFonts = {}
    /\ sheet = <<>>
    /\ renderedMap = {}
    /\ grid = <<>>
    /\ initPc = "deferred"
    /\ up = [p \in Slots |-> IdleUpload]
    /\ clearPc = "idle"
    /\ exportPc = IdleExport
    /\ dbQ = <<>>
    /\ gestures = 0
    /\ last = Quiet

\* the library is loaded and drawn, searched, exported, and fonts are
\* deleted from it
NextLibrary ==
    \/ InitLoad
    \/ LoadFonts
    \/ \E q \in Searches : SearchInput(q)
    \/ \E k \in LibraryNames, ok \in BOOLEAN : DeleteSingleFont(k, ok)
    \/ DeleteSettled
    \/ ExportPDF
    \/ ExportFrame
    \/ ExportPrint

SpecLibrary == InitLibrary /\ [][NextLibrary]_vars

\* the records of the registry have pairwise different font identifiers
DistinctFontIds ==
    \A i \in 1..Len(fonts) : \A j \in 1..Len(fonts) :
        fonts[i].fileName # fonts[j].fileName =>
            safeFontId(fonts[i].fileName, fonts[i].data)
                # safeFontId(fonts[j].fileName, fonts[j].data)

\* every card's font identifier has a rule, and the rule points at the URL
\* of the card's own record
OwnRule ==
    \A i \in 1..Len(fonts) :
        fonts[i].fileName \in renderedMap =>
            /\ RulesOf(fonts[i]) # {}
            /\ \A j \in RulesOf(fonts[i]) :
                   sheet[j].url.name = fonts[i].fileName

\* C22: two records of the registry with different file names have
\* different font identifiers, so that no registration is skipped as
\* already cached and every card's preview is bound to a rule that points
\* at the URL of its own record.
C22_FontIdsDistinct == DistinctFontIds /\ OwnRule

====
